---- MODULE Spec2Model ----
(***************************************************************************)
(* A model of the RTOS kernel of os.c: task descriptors, the intrusive     *)
(* queues and lists, the scheduler (kernel_handle_request and              *)
(* kernel_dispatch), the timer tick, and the publish/subscribe services.   *)
(*                                                                         *)
(* Granularity.  The kernel runs with interrupts disabled, so one kernel   *)
(* entry (the system-call stub or the timer ISR, kernel_handle_request,    *)
(* kernel_dispatch and the return into the dispatched task) is one action. *)
(* Service_Init, Service_Subscribe and Service_Publish are ordinary        *)
(* functions executed by the calling task with interrupts enabled: their   *)
(* statements are separate actions between which the timer may fire.       *)
(* Each call of enqueue, push_queue and dequeue is taken as one step.      *)
(***************************************************************************)
EXTENDS Integers, Sequences, FiniteSets, TLC

(* ------------------------------------------------------------------ *)
(* Bounds of the model                                                *)
(* ------------------------------------------------------------------ *)

\* Application task descriptors (task_desc has MAXPROCESS + 1 entries).
MAXPROCESS == 3

\* Service objects in the services array.
MAXSERVICES == 1

\* Timer ticks taken in one behaviour.
MaxTicks == 2

\* Largest period and wcet a Task_Create_Periodic request carries.
MaxPeriod == 2

\* Largest start offset a Task_Create_Periodic request carries.
MaxStart == 1

\* Largest value a Service_Publish call carries (values are 1..MaxValue).
MaxValue == 1

\* Task_Create_* calls that find a free descriptor, Service_Subscribe calls
\* and Service_Publish calls made in one behaviour.
MaxCreate == 2
MaxSubscribe == 2
MaxPublish == 1

\* Now is called at most MaxNow times.
MaxNow == 2

\* Task_Create_* and Service_Subscribe calls of the application of RR and
\* System tasks that use one service.
MaxCreateRR == 3
MaxSubscribeRR == 3

(* ------------------------------------------------------------------ *)
(* Program constants                                                  *)
(* ------------------------------------------------------------------ *)

NULL == -1

\* Width of ticks_remaining (uint8_t) and of current_tick_multiplied (uint16_t).
Uint8 == 256
Uint16 == 65536

\* Milliseconds added to current_tick_multiplied per tick.
TickMs == 5

\* current_tick_multiplied-5 in Now
NowBias == 5

\* The largest amount Now adds for the time since the last tick: retval+4
MaxOffset == 4

\* task levels; the idle descriptor is created with level (int)NULL
SYSTEM == "SYSTEM"
PERIODIC == "PERIODIC"
RR == "RR"
IDLE == "IDLE"

\* task states
DEAD == "DEAD"
READY == "READY"
RUNNING == "RUNNING"
WAITING == "WAITING"

\* kernel requests
NONE == "NONE"
TIMER_EXPIRED == "TIMER_EXPIRED"
TASK_CREATE == "TASK_CREATE"
TASK_TERMINATE == "TASK_TERMINATE"
TASK_INTERRUPT == "TASK_INTERRUPT"
TASK_NEXT == "TASK_NEXT"

\* error codes
ERR_1_WORST_CASE_GT_PERIOD == "ERR_1_WORST_CASE_GT_PERIOD"
ERR_2_MAX_SERVICES_REACHED == "ERR_2_MAX_SERVICES_REACHED"
ERR_RUN_1_USER_CALLED_OS_ABORT == "ERR_RUN_1_USER_CALLED_OS_ABORT"
ERR_RUN_2_TOO_MANY_TASKS == "ERR_RUN_2_TOO_MANY_TASKS"
ERR_RUN_3_PERIODIC_TOOK_TOO_LONG == "ERR_RUN_3_PERIODIC_TOOK_TOO_LONG"
ERR_RUN_5_RTOS_INTERNAL_ERROR == "ERR_RUN_5_RTOS_INTERNAL_ERROR"
ERR_RUN_6_PERIODIC_TASK_COLLISION == "ERR_RUN_6_PERIODIC_TASK_COLLISION"
ERR_RUN_7_PERIODIC_TASK_SUBSCRIBED == "ERR_RUN_7_PERIODIC_TASK_SUBSCRIBED"
ERR_RUN_8_PERIODIC_TASK_FOUND_SUBSCRIBED == "ERR_RUN_8_PERIODIC_TASK_FOUND_SUBSCRIBED"

\* indices into task_desc; the last one is the idle task
Tasks == 0 .. MAXPROCESS
AppTasks == 0 .. (MAXPROCESS - 1)
idle_task == MAXPROCESS

\* the queues and lists, as indices into head and tail
dead_pool_queue == 0
rr_queue == 1
periodic_list == 2
system_queue == 3
FirstServiceQueue == 4
ServiceIds == 0 .. (MAXSERVICES - 1)

subscribers(s) == FirstServiceQueue + s

Queues == 0 .. (FirstServiceQueue + MAXSERVICES - 1)

(* ------------------------------------------------------------------ *)
(* State                                                              *)
(* ------------------------------------------------------------------ *)

VARIABLES
    \* task_descriptor_t fields, one function per field
    state, level, next, prev, period, wcet, countdown, value,
    \* head and tail of every queue_t / list_t
    head, tail,
    service_count,
    cur_task,
    kernel_request_retval,
    ticks_remaining,
    current_tick_multiplied,
    error_msg,
    \* OS_Abort has been entered (it never returns)
    aborted,
    \* where each task stands in its own code, and the locals of the
    \* Service_Publish call it is in
    pc, loc,
    \* the int16_t each task hands to Service_Subscribe
    slot,
    \* a publish stored through a value pointer that was never set
    wild_write,
    \* the value the last returning Task_Create_* call returned
    last_create_return,
    \* the request handled by the last step (NONE for a step in task code)
    last_op,
    \* the branch kernel_dispatch took in the last kernel entry
    last_dispatch,
    \* timer ticks each periodic task has been interrupted by while Running
    \* since it last called Task_Next
    ran,
    \* calls made so far, by kind
    calls,
    \* TCNT1 - previous_tick_time as Now last read it, in whole milliseconds
    cur_time,
    \* the value the last returning Now call returned
    now_last,
    \* for each periodic task, start + k * period - n, where k releases of
    \* it have been dispatched (a release that was preempted and rewound
    \* not counted) and n timer ticks were handled since its creation
    release_in

vars == << state, level, next, prev, period, wcet, countdown, value,
           head, tail, service_count, cur_task, kernel_request_retval,
           ticks_remaining, current_tick_multiplied, error_msg, aborted,
           pc, loc, slot, wild_write, last_create_return, last_op,
           last_dispatch, ran, calls, cur_time, now_last, release_in >>

\* The whole state as one record, so that the C functions compose.
K == [ state |-> state, level |-> level, next |-> next, prev |-> prev,
       period |-> period, wcet |-> wcet, countdown |-> countdown,
       value |-> value, head |-> head, tail |-> tail,
       service_count |-> service_count, cur_task |-> cur_task,
       kernel_request_retval |-> kernel_request_retval,
       ticks_remaining |-> ticks_remaining,
       current_tick_multiplied |-> current_tick_multiplied,
       error_msg |-> error_msg, aborted |-> aborted,
       pc |-> pc, loc |-> loc, slot |-> slot, wild_write |-> wild_write,
       last_create_return |-> last_create_return, last_op |-> last_op,
       last_dispatch |-> last_dispatch, ran |-> ran, calls |-> calls,
       cur_time |-> cur_time, now_last |-> now_last,
       release_in |-> release_in,
       ret |-> NULL ]

Set(k) ==
    /\ state' = k.state
    /\ level' = k.level
    /\ next' = k.next
    /\ prev' = k.prev
    /\ period' = k.period
    /\ wcet' = k.wcet
    /\ countdown' = k.countdown
    /\ value' = k.value
    /\ head' = k.head
    /\ tail' = k.tail
    /\ service_count' = k.service_count
    /\ cur_task' = k.cur_task
    /\ kernel_request_retval' = k.kernel_request_retval
    /\ ticks_remaining' = k.ticks_remaining
    /\ current_tick_multiplied' = k.current_tick_multiplied
    /\ error_msg' = k.error_msg
    /\ aborted' = k.aborted
    /\ pc' = k.pc
    /\ loc' = k.loc
    /\ slot' = k.slot
    /\ wild_write' = k.wild_write
    /\ last_create_return' = k.last_create_return
    /\ last_op' = k.last_op
    /\ last_dispatch' = k.last_dispatch
    /\ ran' = k.ran
    /\ calls' = k.calls
    /\ cur_time' = k.cur_time
    /\ now_last' = k.now_last
    /\ release_in' = k.release_in

\* The state is k.
Is(k) ==
    /\ state = k.state
    /\ level = k.level
    /\ next = k.next
    /\ prev = k.prev
    /\ period = k.period
    /\ wcet = k.wcet
    /\ countdown = k.countdown
    /\ value = k.value
    /\ head = k.head
    /\ tail = k.tail
    /\ service_count = k.service_count
    /\ cur_task = k.cur_task
    /\ kernel_request_retval = k.kernel_request_retval
    /\ ticks_remaining = k.ticks_remaining
    /\ current_tick_multiplied = k.current_tick_multiplied
    /\ error_msg = k.error_msg
    /\ aborted = k.aborted
    /\ pc = k.pc
    /\ loc = k.loc
    /\ slot = k.slot
    /\ wild_write = k.wild_write
    /\ last_create_return = k.last_create_return
    /\ last_op = k.last_op
    /\ last_dispatch = k.last_dispatch
    /\ ran = k.ran
    /\ calls = k.calls
    /\ cur_time = k.cur_time
    /\ now_last = k.now_last
    /\ release_in = k.release_in

\* locals of a task that is inside neither Service_Publish nor Now
NoLoc == [ s |-> NULL, v |-> 0, subscriber |-> NULL, interrupt |-> 0,
           retval |-> 0 ]

(* ------------------------------------------------------------------ *)
(* OS_Abort                                                           *)
(* ------------------------------------------------------------------ *)

\* OS_Abort disables interrupts and blinks error_msg forever.
OS_Abort(k) == [k EXCEPT !.aborted = TRUE]

Raise(k, code) == OS_Abort([k EXCEPT !.error_msg = code])

\* error_msg = code in a service function, which runs as task code with
\* interrupts enabled: the store is done and the call of OS_Abort, whose
\* first statement disables interrupts, is the task's next step.
store_error(k, code) ==
    [k EXCEPT !.error_msg = code, !.pc[k.cur_task] = "os_abort"]

(* ------------------------------------------------------------------ *)
(* Lists and queues                                                   *)
(* ------------------------------------------------------------------ *)

list_add(k, q, t) ==
    LET link(k1) ==
            IF k1.head[q] = NULL
            THEN [k1 EXCEPT !.head[q] = t, !.tail[q] = t]
            ELSE [k1 EXCEPT !.next[k1.tail[q]] = t,
                            !.prev[t] = k1.tail[q],
                            !.tail[q] = t]
    IN  link([k EXCEPT !.next[t] = NULL, !.prev[t] = NULL])

list_remove(k, q, t) ==
    LET fix_tail(k0) ==
            IF k0.tail[q] = t THEN [k0 EXCEPT !.tail[q] = k0.prev[t]] ELSE k0
        fix_head(k1) ==
            IF k1.head[q] = t THEN [k1 EXCEPT !.head[q] = k1.next[t]] ELSE k1
        fix_prev(k2) ==
            IF k2.prev[t] # NULL
            THEN [k2 EXCEPT !.next[k2.prev[t]] = k2.next[t]] ELSE k2
        fix_next(k3) ==
            IF k3.next[t] # NULL
            THEN [k3 EXCEPT !.prev[k3.next[t]] = k3.prev[t]] ELSE k3
    IN  fix_next(fix_prev(fix_head(fix_tail(k))))

enqueue(k, q, t) ==
    LET link(k1) ==
            IF k1.head[q] = NULL
            THEN [k1 EXCEPT !.head[q] = t, !.tail[q] = t]
            ELSE [k1 EXCEPT !.next[k1.tail[q]] = t, !.tail[q] = t]
    IN  link([k EXCEPT !.next[t] = NULL, !.prev[t] = NULL])

push_queue(k, q, t) ==
    LET link(k1) ==
            IF k1.head[q] = NULL
            THEN [k1 EXCEPT !.head[q] = t, !.tail[q] = t]
            ELSE [k1 EXCEPT !.prev[k1.head[q]] = t, !.head[q] = t]
    IN  link([k EXCEPT !.next[t] = k.head[q], !.prev[t] = NULL])

\* the popped descriptor (or NULL) is left in ret
dequeue(k, q) ==
    LET pop(task_ptr) ==
            IF task_ptr # NULL
            THEN [k EXCEPT !.head[q] = k.next[task_ptr],
                           !.next[task_ptr] = NULL,
                           !.ret = task_ptr]
            ELSE [k EXCEPT !.ret = NULL]
    IN  pop(k.head[q])

\* The descriptors met by following next from t, at most n of them.
RECURSIVE Walk(_, _, _)
Walk(nxt, t, n) ==
    IF t = NULL \/ n = 0 THEN << >>
    ELSE << t >> \o Walk(nxt, nxt[t], n - 1)

\* The descriptors reachable from the head of queue q.
Chain(k, q) == Walk(k.next, k.head[q], MAXPROCESS + 1)

SeqRange(s) == { s[i] : i \in 1 .. Len(s) }

Reach(k, q) == SeqRange(Chain(k, q))

(* ------------------------------------------------------------------ *)
(* Kernel functions                                                   *)
(* ------------------------------------------------------------------ *)

\* kernel_request_create_args.  Task_Create_System and Task_Create_RR leave
\* period, wcet and start as an earlier request set them; for a SYSTEM or
\* RR descriptor the kernel never reads the fields copied from them (every
\* read is guarded by level == PERIODIC or goes through periodic_list), so
\* they are written as 0 here.
CreateArgs(lv, p, w, s) == [ level |-> lv, period |-> p, wcet |-> w, start |-> s ]

\* The argument check of kernel_create_task.
create_args_rejected(args) ==
    args.level = PERIODIC /\ args.period < args.wcet

\* The dead pool has no descriptor left for a create request.
dead_pool_empty(k) == k.head[dead_pool_queue] = NULL

\* Returns (in ret) 1, or 0 when the dead pool is empty.  The new task
\* starts its own code from the beginning, with a fresh out-slot.
kernel_create_task(k, args) ==
    LET fill(k1, p) ==
            [k1 EXCEPT !.state[p] = READY,
                       !.level[p] = args.level,
                       !.period[p] = args.period,
                       !.wcet[p] = args.wcet,
                       !.countdown[p] = args.start,
                       !.pc[p] = "user",
                       !.loc[p] = NoLoc,
                       !.slot[p] = 0,
                       !.ran[p] = 0,
                       !.release_in[p] = args.start]
        link(k2, p) ==
            CASE args.level = SYSTEM   -> enqueue(k2, system_queue, p)
              [] args.level = PERIODIC -> list_add(k2, periodic_list, p)
              [] args.level = RR       -> enqueue(k2, rr_queue, p)
              [] OTHER                 -> k2
        setup(k1) == [link(fill(k1, k1.ret), k1.ret) EXCEPT !.ret = 1]
    IN  IF dead_pool_empty(k) THEN [k EXCEPT !.ret = 0]
        ELSE IF create_args_rejected(args)
        THEN Raise(k, ERR_1_WORST_CASE_GT_PERIOD)
        ELSE setup(IF args.level = IDLE
                   THEN [k EXCEPT !.ret = idle_task]
                   ELSE dequeue(k, dead_pool_queue))

kernel_terminate_task(k) ==
    LET unlink(k1) ==
            IF k1.level[k1.cur_task] = PERIODIC
            THEN list_remove(k1, periodic_list, k1.cur_task) ELSE k1
    IN  enqueue(unlink([k EXCEPT !.state[k.cur_task] = DEAD]),
                dead_pool_queue, k.cur_task)

\* The periodic tasks of the list that are due, in list order.
DuePeriodic(k) ==
    SelectSeq(Chain(k, periodic_list), LAMBDA t : k.countdown[t] <= 0)

\* kernel_find_periodic without the collision check: the first periodic
\* task that is due is returned.
kernel_find_periodic_first(k) ==
    LET pick(due) ==
            IF Len(due) >= 1 THEN [k EXCEPT !.ret = due[1]]
            ELSE [k EXCEPT !.ret = NULL]
    IN  pick(DuePeriodic(k))

\* Leaves in ret the one periodic task that is due, or NULL; aborts when a
\* second one is due.
kernel_find_periodic(k) ==
    LET pick(due) ==
            IF Len(due) >= 2 THEN Raise(k, ERR_RUN_6_PERIODIC_TASK_COLLISION)
            ELSE IF Len(due) = 1 THEN [k EXCEPT !.ret = due[1]]
            ELSE [k EXCEPT !.ret = NULL]
    IN  pick(DuePeriodic(k))

\* The budget a periodic task is dispatched with.
dispatch_budget(k, t) ==
    IF k.ticks_remaining = 0 THEN k.wcet[t] % Uint8 ELSE k.ticks_remaining

\* kernel_dispatch looks for another task.
dispatch_needed(k) ==
    k.state[k.cur_task] # RUNNING \/ k.cur_task = idle_task

kernel_dispatch(k) ==
    LET run(k1, lv) ==
            [k1 EXCEPT !.cur_task = k1.ret,
                       !.state[k1.ret] = RUNNING,
                       !.last_dispatch = lv]
        run_periodic(k1) ==
            [k1 EXCEPT !.cur_task = k1.ret,
                       !.countdown[k1.ret] = @ + k1.period[k1.ret],
                       !.release_in[k1.ret] = @ + k1.period[k1.ret],
                       !.ticks_remaining = dispatch_budget(k1, k1.ret),
                       !.state[k1.ret] = RUNNING,
                       !.last_dispatch = PERIODIC]
        below_system(k1) ==
            IF k1.aborted THEN [k1 EXCEPT !.last_dispatch = "abort"]
            ELSE IF k1.ret # NULL THEN run_periodic(k1)
            ELSE IF k1.head[rr_queue] # NULL
            THEN run(dequeue(k1, rr_queue), RR)
            ELSE [k1 EXCEPT !.cur_task = idle_task,
                            !.state[idle_task] = RUNNING,
                            !.last_dispatch = IDLE]
    IN  IF k.aborted THEN k
        ELSE IF ~dispatch_needed(k) THEN [k EXCEPT !.last_dispatch = "kept"]
        ELSE IF k.head[system_queue] # NULL
        THEN run(dequeue(k, system_queue), SYSTEM)
        ELSE below_system(kernel_find_periodic(k))

\* A ticker that charges every tick, also under a System task.
tick_charged_always(k) == TRUE

\* The tick is charged to the periodic slot.
tick_charged(k) == k.level[k.cur_task] # SYSTEM

\* A countdown loop that stops after the first descriptor of the list.
ticker_loop_first(k, t, n) ==
    IF t = NULL \/ n = 0 THEN k ELSE [k EXCEPT !.countdown[t] = @ - 1]

\* The countdown loop of kernel_update_ticker, from descriptor t on.
RECURSIVE ticker_loop(_, _, _)
ticker_loop(k, t, n) ==
    LET counted(k1) ==
            IF /\ k1.countdown[t] = 0
               /\ k1.level[k1.cur_task] = PERIODIC
               /\ k1.cur_task # t
            THEN Raise(k1, ERR_RUN_6_PERIODIC_TASK_COLLISION)
            ELSE ticker_loop(k1, k1.next[t], n - 1)
    IN  IF t = NULL \/ n = 0 THEN k
        ELSE counted([k EXCEPT !.countdown[t] = @ - 1])

kernel_update_ticker(k) ==
    LET charged(k1) ==
            IF k1.ticks_remaining = 0 /\ k1.level[k1.cur_task] = PERIODIC
            THEN Raise(k1, ERR_RUN_3_PERIODIC_TOOK_TOO_LONG)
            ELSE ticker_loop(k1, k1.head[periodic_list], MAXPROCESS + 1)
    IN  IF k.head[periodic_list] = NULL THEN k
        ELSE charged(IF tick_charged(k)
                     THEN [k EXCEPT !.ticks_remaining = (@ - 1) % Uint8]
                     ELSE k)

\* The undo of the slot accounting when a periodic task is preempted.
rewind_periodic(k) ==
    [k EXCEPT !.countdown[k.cur_task] = @ - k.period[k.cur_task],
              !.release_in[k.cur_task] = @ - k.period[k.cur_task],
              !.ticks_remaining = (@ + 1) % Uint8]

\* cur_task->state = READY
make_ready(k) == [k EXCEPT !.state[k.cur_task] = READY]

\* A TASK_CREATE handler that takes every return value for a success.
create_never_failed(k) == FALSE

\* The create request failed (kernel_request_retval is (int)NULL).
create_failed(k) == k.kernel_request_retval = 0

handle_TIMER_EXPIRED(k) ==
    LET preempt_rr(k1) ==
            IF k1.aborted THEN k1
            ELSE IF k1.level[k1.cur_task] = RR /\ k1.state[k1.cur_task] = RUNNING
            THEN enqueue(make_ready(k1), rr_queue, k1.cur_task)
            ELSE k1
    IN  preempt_rr(kernel_update_ticker(k))

handle_TASK_CREATE(k, args) ==
    LET demote(d) ==
            IF d.level[d.cur_task] = PERIODIC THEN rewind_periodic(d) ELSE d
        system_created(k1) ==
            IF args.level = SYSTEM /\ k1.level[k1.cur_task] # SYSTEM
            THEN demote(make_ready(k1))
            ELSE k1
        periodic_created(k2) ==
            IF /\ k2.level[k2.cur_task] = RR
               /\ args.level = PERIODIC
               /\ args.start = 0
            THEN make_ready(k2)
            ELSE k2
        requeue(k3) ==
            IF k3.level[k3.cur_task] = RR /\ k3.state[k3.cur_task] = READY
            THEN enqueue(k3, rr_queue, k3.cur_task)
            ELSE k3
        check(k1) ==
            IF create_failed(k1) THEN Raise(k1, ERR_RUN_2_TOO_MANY_TASKS)
            ELSE requeue(periodic_created(system_created(k1)))
        returned(k0) ==
            IF k0.aborted THEN k0
            ELSE check([k0 EXCEPT !.kernel_request_retval = k0.ret])
    IN  returned(kernel_create_task(k, args))

handle_TASK_TERMINATE(k) ==
    IF k.cur_task # idle_task THEN kernel_terminate_task(k) ELSE k

handle_TASK_INTERRUPT(k) ==
    LET demote(d) ==
            IF d.level[d.cur_task] = PERIODIC
            THEN rewind_periodic(d)
            ELSE push_queue(d, rr_queue, d.cur_task)
    IN  IF k.state[k.cur_task] = RUNNING /\ k.level[k.cur_task] # SYSTEM
        THEN demote(make_ready(k))
        ELSE k

handle_TASK_NEXT(k) ==
    LET c == k.cur_task
    IN  IF k.state[c] = RUNNING
        THEN make_ready(
                 CASE k.level[c] = SYSTEM   -> enqueue(k, system_queue, c)
                   [] k.level[c] = PERIODIC ->
                          [k EXCEPT !.ticks_remaining = 0, !.ran[c] = 0]
                   [] k.level[c] = RR       -> enqueue(k, rr_queue, c)
                   [] OTHER                 -> k)
        ELSE k

kernel_handle_request(k, kernel_request, args) ==
    CASE kernel_request = NONE           -> k
      [] kernel_request = TIMER_EXPIRED  -> handle_TIMER_EXPIRED(k)
      [] kernel_request = TASK_CREATE    -> handle_TASK_CREATE(k, args)
      [] kernel_request = TASK_TERMINATE -> handle_TASK_TERMINATE(k)
      [] kernel_request = TASK_INTERRUPT -> handle_TASK_INTERRUPT(k)
      [] kernel_request = TASK_NEXT      -> handle_TASK_NEXT(k)
      [] OTHER -> Raise(k, ERR_RUN_5_RTOS_INTERNAL_ERROR)

\* The dispatched task continues after its call of enter_kernel: a
\* Task_Create_* stub reads kernel_request_retval and returns it.
exit_kernel(k) ==
    LET c == k.cur_task
    IN  IF ~k.aborted /\ k.pc[c] = "create"
        THEN [k EXCEPT !.pc[c] = "user",
                       !.last_create_return = k.kernel_request_retval]
        ELSE k

\* One pass of kernel_main_loop, from the entry into the kernel to the
\* return into the dispatched task.
kernel_main_loop(k, kernel_request, args) ==
    exit_kernel(kernel_dispatch(
        kernel_handle_request([k EXCEPT !.last_op = kernel_request,
                                        !.last_dispatch = NONE],
                              kernel_request, args)))

NoArgs == CreateArgs(IDLE, 0, 0, 0)

(* ------------------------------------------------------------------ *)
(* OS_Init                                                            *)
(* ------------------------------------------------------------------ *)

\* Memory as the C runtime leaves it: statics zeroed, error_msg initialised.
Zeroed ==
    [ state |-> [t \in Tasks |-> DEAD],
      level |-> [t \in Tasks |-> IDLE],
      next |-> [t \in Tasks |-> NULL],
      prev |-> [t \in Tasks |-> NULL],
      period |-> [t \in Tasks |-> 0],
      wcet |-> [t \in Tasks |-> 0],
      countdown |-> [t \in Tasks |-> 0],
      value |-> [t \in Tasks |-> NULL],
      head |-> [q \in Queues |-> NULL],
      tail |-> [q \in Queues |-> NULL],
      service_count |-> 0,
      cur_task |-> NULL,
      kernel_request_retval |-> 0,
      ticks_remaining |-> 0,
      current_tick_multiplied |-> 0,
      error_msg |-> ERR_RUN_1_USER_CALLED_OS_ABORT,
      aborted |-> FALSE,
      pc |-> [t \in Tasks |-> "user"],
      loc |-> [t \in Tasks |-> NoLoc],
      slot |-> [t \in Tasks |-> 0],
      wild_write |-> FALSE,
      last_create_return |-> NULL,
      last_op |-> NONE,
      last_dispatch |-> NONE,
      ran |-> [t \in Tasks |-> 0],
      calls |-> [ create |-> 0, subscribe |-> 0, publish |-> 0, now |-> 0 ],
      cur_time |-> 0,
      now_last |-> NULL,
      release_in |-> [t \in Tasks |-> 0],
      ret |-> NULL ]

\* The dead pool as OS_Init links it: descriptors 0 .. MAXPROCESS - 1.
init_dead_pool(k) ==
    [k EXCEPT !.next = [t \in Tasks |->
                           IF t < MAXPROCESS - 1 THEN t + 1 ELSE NULL],
              !.head[dead_pool_queue] = 0,
              !.tail[dead_pool_queue] = MAXPROCESS - 1]

\* OS_Init up to the first return into main (descriptor 0, SYSTEM).
OS_Init ==
    LET run_main(k3) == [k3 EXCEPT !.cur_task = 0, !.state[0] = RUNNING]
        reset(k5) == [k5 EXCEPT !.current_tick_multiplied = 0,
                                !.service_count = 0]
        enter(k6) == [kernel_dispatch(k6) EXCEPT !.last_dispatch = NONE]
    IN  enter(reset(dequeue(run_main(
            kernel_create_task(
                kernel_create_task(init_dead_pool(Zeroed),
                                   CreateArgs(IDLE, 0, 0, 0)),
                CreateArgs(SYSTEM, 0, 0, 0))), system_queue)))

Init == Is(OS_Init)

(* ------------------------------------------------------------------ *)
(* The timer interrupt and the system calls                           *)
(* ------------------------------------------------------------------ *)

\* InTask for an OS_Abort that returns to its caller.
InTask_abort_returns(p) ==
    /\ cur_task # idle_task
    /\ pc[cur_task] = p

\* The current task is executing its own code at position p.
InTask(p) ==
    /\ ~aborted
    /\ cur_task # idle_task
    /\ pc[cur_task] = p

\* The ISR part of a tick; the tick is also counted against the release of
\* a Running periodic task.
TIMER1_COMPA_vect(k) ==
    LET c == k.cur_task
    IN  [k EXCEPT !.current_tick_multiplied = (@ + TickMs) % Uint16,
                  !.cur_time = 0,
                  !.ran[c] = IF k.level[c] = PERIODIC /\ k.state[c] = RUNNING
                             THEN @ + 1 ELSE @,
                  !.release_in =
                      [t \in Tasks |->
                          IF k.level[t] = PERIODIC /\ k.state[t] # DEAD
                          THEN k.release_in[t] - 1 ELSE k.release_in[t]]]

\* The timer fires while a task (or idle) runs.
Tick ==
    /\ ~aborted
    /\ current_tick_multiplied < TickMs * MaxTicks
    /\ Set(kernel_main_loop(TIMER1_COMPA_vect(K), TIMER_EXPIRED, NoArgs))

\* The stub of a Task_Create_* call, up to enter_kernel.
create_stub(k) ==
    [k EXCEPT !.pc[k.cur_task] = "create",
              !.calls.create = IF dead_pool_empty(k) THEN @ ELSE @ + 1]

\* A further Task_Create_* call is within the bound; a call that finds the
\* dead pool empty creates nothing and is always possible.
MayCreate ==
    /\ InTask("user")
    /\ calls.create < MaxCreate \/ dead_pool_empty(K)

Task_Create_System ==
    /\ MayCreate
    /\ Set(kernel_main_loop(create_stub(K), TASK_CREATE,
                            CreateArgs(SYSTEM, 0, 0, 0)))

Task_Create_RR ==
    /\ MayCreate
    /\ Set(kernel_main_loop(create_stub(K), TASK_CREATE,
                            CreateArgs(RR, 0, 0, 0)))

Task_Create_Periodic ==
    /\ MayCreate
    /\ \E p \in 1 .. MaxPeriod, w \in 0 .. (MaxPeriod + 1), s \in 0 .. MaxStart :
           Set(kernel_main_loop(create_stub(K), TASK_CREATE,
                                CreateArgs(PERIODIC, p, w, s)))

Task_Next ==
    /\ InTask("user")
    /\ Set(kernel_main_loop(K, TASK_NEXT, NoArgs))

\* The task's own variables end with it.
task_ends(k) ==
    LET c == k.cur_task
    IN  [k EXCEPT !.pc[c] = "user", !.loc[c] = NoLoc, !.slot[c] = 0,
                  !.ran[c] = 0]

\* Task_Terminate, called or reached by returning from the task function.
Task_Terminate ==
    /\ InTask("user")
    /\ Set(kernel_main_loop(task_ends(K), TASK_TERMINATE, NoArgs))

\* uint16_t retval = current_tick_multiplied-5
now_retval(k) ==
    [k EXCEPT !.loc[k.cur_task].retval =
                  (k.current_tick_multiplied + Uint16 - NowBias) % Uint16,
              !.pc[k.cur_task] = "now_time",
              !.calls.now = @ + 1]

\* Now, first statement.  Now runs as task code with interrupts enabled.
Now_Retval ==
    /\ InTask("user")
    /\ calls.now < MaxNow
    /\ Set(now_retval([K EXCEPT !.last_op = NONE, !.last_dispatch = NONE]))

\* cur_time = TCNT1 - previous_tick_time, read ms whole milliseconds after
\* the last tick, and the chain of comparisons with MS_CYCLES .. MS_CYCLES4
\* that adds 0 .. 4 to retval.
now_return(k, ms) ==
    LET c == k.cur_task
        offset == IF ms < MaxOffset THEN ms ELSE MaxOffset
    IN  [k EXCEPT !.cur_time = ms,
                  !.now_last = (k.loc[c].retval + offset) % Uint16,
                  !.pc[c] = "user",
                  !.loc[c] = NoLoc]

\* Now, the rest.  The timer has not run backwards since it was last read.
Now_Return ==
    /\ InTask("now_time")
    /\ \E ms \in cur_time .. MaxOffset :
           Set(now_return([K EXCEPT !.last_op = NONE, !.last_dispatch = NONE],
                          ms))

\* The application calls OS_Abort.
User_OS_Abort ==
    /\ InTask("user")
    /\ Set(OS_Abort([K EXCEPT !.last_op = NONE, !.last_dispatch = NONE]))

(* ------------------------------------------------------------------ *)
(* Services                                                           *)
(* ------------------------------------------------------------------ *)

\* a step of task code: no kernel entry
user_step(k) == [k EXCEPT !.last_op = NONE, !.last_dispatch = NONE]

Service_Init_body(k) ==
    IF k.service_count >= MAXSERVICES
    THEN store_error(k, ERR_2_MAX_SERVICES_REACHED)
    ELSE [k EXCEPT !.service_count = @ + 1,
                   !.head[subscribers(k.service_count)] = NULL,
                   !.tail[subscribers(k.service_count)] = NULL]

Service_Init ==
    /\ InTask("user")
    /\ Set(Service_Init_body(user_step(K)))

\* The OS_Abort() that follows the store of an error code in a service
\* function.
Service_OS_Abort ==
    /\ InTask("os_abort")
    /\ Set(OS_Abort(user_step(K)))

\* Service_Subscribe, first statements: the level check and the enqueue.
subscribe_enqueue(k, s) ==
    LET c == k.cur_task
    IN  IF k.level[c] = PERIODIC
        THEN store_error(k, ERR_RUN_7_PERIODIC_TASK_SUBSCRIBED)
        ELSE [enqueue(k, subscribers(s), c)
                 EXCEPT !.pc[c] = "sub_state", !.calls.subscribe = @ + 1]

Subscribe_Enqueue ==
    /\ InTask("user")
    /\ calls.subscribe < MaxSubscribe
    /\ \E s \in ServiceIds :
          /\ s < service_count
          /\ Set(subscribe_enqueue(user_step(K), s))

\* cur_task->state = WAITING
subscribe_state(k) ==
    [k EXCEPT !.state[k.cur_task] = WAITING, !.pc[k.cur_task] = "sub_value"]

Subscribe_State ==
    /\ InTask("sub_state")
    /\ Set(subscribe_state(user_step(K)))

\* cur_task->value = v; every task hands in the address of its own slot
subscribe_value(k) ==
    [k EXCEPT !.value[k.cur_task] = k.cur_task, !.pc[k.cur_task] = "sub_next"]

Subscribe_Value ==
    /\ InTask("sub_value")
    /\ Set(subscribe_value(user_step(K)))

\* the Task_Next() that ends Service_Subscribe
Subscribe_Next ==
    /\ InTask("sub_next")
    /\ Set(kernel_main_loop([K EXCEPT !.pc[cur_task] = "user"],
                            TASK_NEXT, NoArgs))

\* Service_Publish, up to the first dequeue.
publish_begin(k, s, v) ==
    LET first(k1) ==
            [k1 EXCEPT !.loc[k1.cur_task] =
                           [ s |-> s, v |-> v, subscriber |-> k1.ret,
                             interrupt |-> 0, retval |-> 0 ],
                       !.pc[k1.cur_task] = "pub_loop",
                       !.calls.publish = @ + 1]
    IN  first(dequeue(k, subscribers(s)))

Publish_Begin ==
    /\ InTask("user")
    /\ calls.publish < MaxPublish
    /\ \E s \in ServiceIds, v \in 1 .. MaxValue :
          /\ s < service_count
          /\ Set(publish_begin(user_step(K), s, v))

\* *(subscriber->value) = v
store_value(k, sub, v) ==
    IF k.value[sub] = NULL THEN [k EXCEPT !.wild_write = TRUE]
    ELSE [k EXCEPT !.slot[k.value[sub]] = v]

\* The loop test, the state test, the store and subscriber->state = READY.
publish_loop(k) ==
    LET c   == k.cur_task
        sub == k.loc[c].subscriber
    IN  IF sub = NULL THEN [k EXCEPT !.pc[c] = "pub_end"]
        ELSE IF k.state[sub] = WAITING
        THEN [store_value(k, sub, k.loc[c].v)
                 EXCEPT !.state[sub] = READY, !.pc[c] = "pub_push"]
        ELSE [k EXCEPT !.pc[c] = "pub_deq"]

Publish_Loop ==
    /\ InTask("pub_loop")
    /\ Set(publish_loop(user_step(K)))

\* The woken subscriber goes to the head of the queue of its level.
publish_push(k) ==
    LET push(k1, sub) ==
            IF k1.level[sub] = SYSTEM
            THEN push_queue(
                     IF k1.level[k1.cur_task] # SYSTEM
                     THEN [k1 EXCEPT !.loc[k1.cur_task].interrupt = 1] ELSE k1,
                     system_queue, sub)
            ELSE IF k1.level[sub] = RR
            THEN push_queue(k1, rr_queue, sub)
            ELSE store_error(k1, ERR_RUN_8_PERIODIC_TASK_FOUND_SUBSCRIBED)
    IN  push([k EXCEPT !.pc[k.cur_task] = "pub_deq"],
             k.loc[k.cur_task].subscriber)

Publish_Push ==
    /\ InTask("pub_push")
    /\ Set(publish_push(user_step(K)))

\* subscriber = dequeue(&(s->subscribers)) at the end of the loop body
publish_dequeue(k) ==
    LET following(k1) ==
            [k1 EXCEPT !.loc[k1.cur_task].subscriber = k1.ret,
                       !.pc[k1.cur_task] = "pub_loop"]
    IN  following(dequeue(k, subscribers(k.loc[k.cur_task].s)))

Publish_Dequeue ==
    /\ InTask("pub_deq")
    /\ Set(publish_dequeue(user_step(K)))

\* Service_Publish returns without a system call.
Publish_Return ==
    /\ InTask("pub_end")
    /\ loc[cur_task].interrupt = 0
    /\ Set([user_step(K) EXCEPT !.pc[cur_task] = "user",
                                !.loc[cur_task] = NoLoc])

\* kernel_interrupt_task at the end of Service_Publish
Publish_Interrupt ==
    /\ InTask("pub_end")
    /\ loc[cur_task].interrupt = 1
    /\ Set(kernel_main_loop([K EXCEPT !.pc[cur_task] = "user",
                                      !.loc[cur_task] = NoLoc],
                            TASK_INTERRUPT, NoArgs))

(* ------------------------------------------------------------------ *)
(* Specification                                                      *)
(* ------------------------------------------------------------------ *)

Next ==
    \/ Tick
    \/ Task_Create_System
    \/ Task_Create_RR
    \/ Task_Create_Periodic
    \/ Task_Next
    \/ Task_Terminate
    \/ User_OS_Abort
    \/ Service_Init
    \/ Service_OS_Abort
    \/ Subscribe_Enqueue
    \/ Subscribe_State
    \/ Subscribe_Value
    \/ Subscribe_Next
    \/ Publish_Begin
    \/ Publish_Loop
    \/ Publish_Push
    \/ Publish_Dequeue
    \/ Publish_Return
    \/ Publish_Interrupt

Spec == Init /\ [][Next]_vars

(* ------------------------------------------------------------------ *)
(* An application of RR and System tasks that use one service         *)
(* ------------------------------------------------------------------ *)

Services_Create_RR ==
    /\ InTask("user")
    /\ calls.create < MaxCreateRR \/ dead_pool_empty(K)
    /\ Set(kernel_main_loop(create_stub(K), TASK_CREATE,
                            CreateArgs(RR, 0, 0, 0)))

Services_Create_System ==
    /\ InTask("user")
    /\ calls.create < MaxCreateRR \/ dead_pool_empty(K)
    /\ Set(kernel_main_loop(create_stub(K), TASK_CREATE,
                            CreateArgs(SYSTEM, 0, 0, 0)))

Services_Subscribe ==
    /\ InTask("user")
    /\ calls.subscribe < MaxSubscribeRR
    /\ \E s \in ServiceIds :
          /\ s < service_count
          /\ Set(subscribe_enqueue(user_step(K), s))

NextServices ==
    \/ Tick
    \/ Services_Create_RR
    \/ Services_Create_System
    \/ Task_Next
    \/ Task_Terminate
    \/ Service_Init
    \/ Service_OS_Abort
    \/ Services_Subscribe
    \/ Subscribe_State
    \/ Subscribe_Value
    \/ Subscribe_Next

SpecServices == Init /\ [][NextServices]_vars

(* ------------------------------------------------------------------ *)
(* An application of RR tasks under a timer that never stops          *)
(* ------------------------------------------------------------------ *)

\* The tick count of the interrupt, counted modulo MaxTicks + 1 ticks: the
\* kernel and the service functions never read it, and every tick changes it.
TickCycle == TickMs * (MaxTicks + 1)

hold_tick_count(k) ==
    [k EXCEPT !.current_tick_multiplied = @ % TickCycle]

\* The timer fires while a task (or idle) runs, any number of times.
Timer_Tick ==
    /\ ~aborted
    /\ Set(kernel_main_loop(hold_tick_count(TIMER1_COMPA_vect(K)),
                            TIMER_EXPIRED, NoArgs))

NextRR ==
    \/ Timer_Tick
    \/ Services_Create_RR
    \/ Task_Next
    \/ Task_Terminate
    \/ Service_Init
    \/ Service_OS_Abort
    \/ Services_Subscribe
    \/ Subscribe_State
    \/ Subscribe_Value
    \/ Subscribe_Next
    \/ Publish_Begin
    \/ Publish_Loop
    \/ Publish_Push
    \/ Publish_Dequeue
    \/ Publish_Return
    \/ Publish_Interrupt

\* What a tick does to the tick count; of the steps of NextRR only
\* Timer_Tick is such a step.
TickCounted ==
    /\ ~aborted
    /\ current_tick_multiplied' = (current_tick_multiplied + TickMs) % TickCycle

\* The timer is free-running hardware: its interrupt keeps arriving as long
\* as the system has not aborted.
SpecRR == Init /\ [][NextRR]_vars /\ WF_current_tick_multiplied(TickCounted)

(* ------------------------------------------------------------------ *)
(* An application of RR tasks that read the clock                     *)
(* ------------------------------------------------------------------ *)

\* Now changes nothing the kernel reads, and to the kernel a task inside
\* Now is a task in its own code; the calls of Now are followed here, with
\* the ticks and the task switches that can come between their statements.
NextNow ==
    \/ Tick
    \/ Task_Create_RR
    \/ Task_Next
    \/ Task_Terminate
    \/ Now_Retval
    \/ Now_Return

SpecNow == Init /\ [][NextNow]_vars

(* ------------------------------------------------------------------ *)
(* Properties                                                         *)
(* ------------------------------------------------------------------ *)

\* the positions inside Service_Subscribe and Service_Publish
ServicePcs == { "sub_state", "sub_value", "sub_next",
                "pub_loop", "pub_push", "pub_deq", "pub_end" }

\* kernel_dispatch ran to its end in the last step.
DispatchFinished == last_dispatch \in { "kept", SYSTEM, PERIODIC, RR, IDLE }

\* The class priority of a task: System > Periodic > RR > Idle.
ClassPriority(t) ==
    CASE level[t] = SYSTEM   -> 3
      [] level[t] = PERIODIC -> 2
      [] level[t] = RR       -> 1
      [] OTHER               -> 0

\* A Ready task that competes for the processor: a Periodic one only when
\* it is on the periodic list with countdown <= 0.
ReadyToRun(t) ==
    /\ state[t] = READY
    /\ level[t] = PERIODIC =>
           t \in Reach(K, periodic_list) /\ countdown[t] <= 0

\* The descriptors whose state is Running.
RunningTasks == { t \in Tasks : state[t] = RUNNING }

\* The structures descriptor t is reachable from the head of.
StructuresOf(t) == { q \in Queues : t \in Reach(K, q) }

\* A Periodic task that exists.
LivePeriodic(t) == level[t] = PERIODIC /\ state[t] # DEAD

\* The periodic tasks of the list whose countdown is <= 0.
DueSet == SeqRange(DuePeriodic(K))

\* C1: whenever kernel_dispatch finishes, the task it leaves Running has a
\* class priority at least that of every Ready task (System > Periodic at
\* release > RR > Idle).
C1_DispatchPriority ==
    (~aborted /\ DispatchFinished) =>
        \A t \in Tasks :
            ReadyToRun(t) => ClassPriority(cur_task) >= ClassPriority(t)

\* C2: whenever a task is executing its own code outside the service
\* functions, exactly one descriptor, the idle one included, is Running, and
\* it is the one cur_task points to.
C2_ExactlyOneRunning ==
    (~aborted /\ pc[cur_task] = "user") =>
        RunningTasks = { cur_task }

\* C3: every descriptor is reachable from the head of at most one of the
\* dead pool, the system queue, the RR queue, the periodic list and the
\* services' subscriber queues.
C3_AtMostOneStructure ==
    \A t \in Tasks : Cardinality(StructuresOf(t)) <= 1

\* C4: between the steps of one Service_Subscribe or Service_Publish call no
\* timer tick is handled and no other task takes a step: while a task is
\* inside a service function, every step is that task's own and is not a
\* TIMER_EXPIRED request.
C4_ServiceCallsSerial ==
    [][ \A t \in Tasks :
            pc[t] \in ServicePcs =>
                (cur_task = t /\ last_op' # TIMER_EXPIRED) ]_vars

\* C5: a Periodic task with wcet > 0 that has been Running over wcet timer
\* ticks of one release without calling Task_Next has aborted the system
\* with ERR_RUN_3_PERIODIC_TOOK_TOO_LONG.
C5_OverrunAbortsByWcet ==
    \A t \in Tasks :
        (LivePeriodic(t) /\ wcet[t] > 0 /\ ran[t] >= wcet[t]) =>
            (aborted /\ error_msg = ERR_RUN_3_PERIODIC_TOOK_TOO_LONG)

\* C6: ERR_RUN_3_PERIODIC_TOOK_TOO_LONG is raised only against a release
\* that has been Running over at least wcet timer ticks.
C6_NoEarlyOverrun ==
    (aborted /\ error_msg = ERR_RUN_3_PERIODIC_TOOK_TOO_LONG) =>
        ran[cur_task] >= wcet[cur_task]

\* C7, the dispatcher: when kernel_dispatch looked for a periodic release
\* and did not abort, no periodic task other than the one it chose is due;
\* when it aborted, the error is ERR_RUN_6_PERIODIC_TASK_COLLISION, two or
\* more are due and none of them was made Running.
C7_DispatcherCollision ==
    /\ last_dispatch \in { RR, IDLE } => DueSet = {}
    /\ last_dispatch = PERIODIC => DueSet \subseteq { cur_task }
    /\ last_dispatch = "abort" =>
           /\ aborted
           /\ error_msg = ERR_RUN_6_PERIODIC_TASK_COLLISION
           /\ Cardinality(DueSet) >= 2
           /\ \A t \in DueSet : state[t] # RUNNING

\* C7, the tick: a tick that brings the countdown of a periodic task to 0
\* while a different Periodic task is the current task aborts with
\* ERR_RUN_6_PERIODIC_TASK_COLLISION.
C7_TickCollision ==
    (/\ last_op' = TIMER_EXPIRED
     /\ level[cur_task] = PERIODIC
     /\ \E t \in Reach(K, periodic_list) :
            t # cur_task /\ countdown[t] = 1 /\ countdown'[t] = 0)
    => (aborted' /\ error_msg' = ERR_RUN_6_PERIODIC_TASK_COLLISION)

\* C7: two or more periodic tasks due when the dispatcher looks for a
\* release abort the system with ERR_RUN_6_PERIODIC_TASK_COLLISION and none
\* is dispatched; a tick that brings a periodic countdown to 0 while another
\* Periodic task is current aborts with the same error.
C7_PeriodicCollision ==
    []C7_DispatcherCollision /\ [][C7_TickCollision]_vars

\* A tick found a second periodic task due while a Periodic task was current.
C7_Witness ==
    /\ aborted
    /\ error_msg = ERR_RUN_6_PERIODIC_TASK_COLLISION
    /\ last_op = TIMER_EXPIRED
    /\ last_dispatch = NONE
    /\ level[cur_task] = PERIODIC
    /\ \E t \in Reach(K, periodic_list) : t # cur_task /\ countdown[t] = 0

\* C8: in every non-aborted state reached by handling a tick, at most one
\* task of the periodic list has countdown <= 0.
C8_AtMostOneDue ==
    (~aborted /\ last_op = TIMER_EXPIRED) => Cardinality(DueSet) <= 1

\* C9: every Periodic task that exists in a non-aborted state has
\* 0 < wcet <= period.
C9_WcetWithinPeriod ==
    \A t \in Tasks :
        (~aborted /\ LivePeriodic(t)) => (0 < wcet[t] /\ wcet[t] <= period[t])

\* C10, the request: a TASK_CREATE request that finds the dead pool empty
\* aborts with ERR_RUN_2_TOO_MANY_TASKS and its caller stays inside the call;
\* one that finds a descriptor either is rejected for its arguments or
\* leaves a non-zero return value.
C10_CreateStep ==
    last_op' = TASK_CREATE =>
        IF dead_pool_empty(K)
        THEN /\ aborted'
             /\ error_msg' = ERR_RUN_2_TOO_MANY_TASKS
             /\ pc'[cur_task] = "create"
        ELSE \/ aborted' /\ error_msg' = ERR_1_WORST_CASE_GT_PERIOD
             \/ ~aborted' /\ kernel_request_retval' # 0

\* C10: a create request issued with the dead pool empty aborts with
\* ERR_RUN_2_TOO_MANY_TASKS and never returns; no Task_Create_* call returns
\* 0, and with a descriptor available the call returns a non-zero value.
C10_CreateNeverReturnsZero ==
    [](last_create_return # 0) /\ [][C10_CreateStep]_vars

\* A create request found the dead pool empty.
C10_Witness ==
    /\ aborted
    /\ error_msg = ERR_RUN_2_TOO_MANY_TASKS
    /\ last_op = TASK_CREATE
    /\ dead_pool_empty(K)
    /\ pc[cur_task] = "create"

\* The tick finds the Running RR task the only candidate: the system queue
\* is empty, no System task is Ready and no periodic task becomes due.
OnlyRRReady ==
    /\ level[cur_task] = RR
    /\ state[cur_task] = RUNNING
    /\ head[system_queue] = NULL
    /\ \A t \in Tasks : level[t] = SYSTEM => state[t] # READY
    /\ \A t \in Reach(K, periodic_list) : countdown[t] > 1

\* The RR queue with the current task appended.
RRQueueThenCurrent == Chain(K, rr_queue) \o << cur_task >>

\* The RR queue as it is after the step.
RRQueueAfter == Walk(next', head'[rr_queue], MAXPROCESS + 1)

\* The RR queue is a proper queue: its tail pointer is its last descriptor
\* and the current task is not on it.
RRQueueProper ==
    /\ cur_task \notin Reach(K, rr_queue)
    /\ head[rr_queue] # NULL =>
           Chain(K, rr_queue)[Len(Chain(K, rr_queue))] = tail[rr_queue]

\* C11, one tick: with only RR tasks ready, the tick puts the Running RR
\* task Ready at the tail of the RR queue and dispatches the head (the task
\* itself when the queue is empty); a proper queue is rotated by one.
C11_TickStep ==
    (last_op' = TIMER_EXPIRED /\ OnlyRRReady) =>
        /\ ~aborted'
        /\ last_dispatch' = RR
        /\ state'[cur_task'] = RUNNING
        /\ IF head[rr_queue] = NULL
           THEN cur_task' = cur_task /\ RRQueueAfter = << >>
           ELSE /\ cur_task' = head[rr_queue]
                /\ state'[cur_task] = READY
                /\ tail'[rr_queue] = cur_task
                /\ RRQueueAfter # << >>
                /\ RRQueueAfter[Len(RRQueueAfter)] = cur_task
        /\ RRQueueProper =>
               /\ cur_task' = Head(RRQueueThenCurrent)
               /\ RRQueueAfter = Tail(RRQueueThenCurrent)

\* C11: when only RR tasks are ready, every timer tick moves the Running RR
\* task to the tail of the RR queue in state Ready and dispatches the head
\* of the RR queue, so the RR tasks run in cyclic order one tick each.
C11_RoundRobin == [][C11_TickStep]_vars

\* A tick has rotated two or more RR tasks.
C11_Witness ==
    /\ ~aborted
    /\ last_op = TIMER_EXPIRED
    /\ last_dispatch = RR
    /\ head[rr_queue] # NULL
    /\ tail[rr_queue] # cur_task
    /\ level[tail[rr_queue]] = RR
    /\ state[tail[rr_queue]] = READY
    /\ pc[tail[rr_queue]] = "user"

\* The descriptor the next create request takes from the dead pool.
NewTask == head[dead_pool_queue]

\* The step is a create request for a System task, made by a Running task
\* with a descriptor available.
CreatesSystem ==
    /\ last_op' = TASK_CREATE
    /\ state[cur_task] = RUNNING
    /\ ~dead_pool_empty(K)
    /\ level'[NewTask] = SYSTEM
    /\ state[NewTask] = DEAD

\* Descriptor t is the last one of queue q after the step.
AtTailAfter(q, t) ==
    /\ tail'[q] = t
    /\ Walk(next', head'[q], MAXPROCESS + 1) # << >>
    /\ Walk(next', head'[q], MAXPROCESS + 1)
           [Len(Walk(next', head'[q], MAXPROCESS + 1))] = t

\* C12, one create: the outcome by the class of the creator.
C12_CreateStep ==
    CreatesSystem =>
        /\ ~aborted'
        /\ level[cur_task] = RR =>
               /\ state'[cur_task] = READY
               /\ AtTailAfter(rr_queue, cur_task)
               /\ cur_task' = NewTask
               /\ state'[NewTask] = RUNNING
        /\ level[cur_task] = PERIODIC =>
               /\ state'[cur_task] = READY
               /\ cur_task \in SeqRange(Walk(next', head'[periodic_list],
                                             MAXPROCESS + 1))
               /\ countdown'[cur_task] = countdown[cur_task] - period[cur_task]
               /\ ticks_remaining' = ticks_remaining + 1
               /\ cur_task' = NewTask
               /\ state'[NewTask] = RUNNING
        /\ level[cur_task] = SYSTEM =>
               /\ cur_task' = cur_task
               /\ state'[cur_task] = RUNNING
               /\ state'[NewTask] = READY
               /\ AtTailAfter(system_queue, NewTask)

\* C12: a Running RR or Periodic task that creates a System task becomes
\* Ready (RR: at the tail of the RR queue; Periodic: still on the periodic
\* list, countdown reduced by its period, ticks_remaining increased by one)
\* and the dispatch that follows selects the new System task; a System
\* creator stays Running and the new task waits on the system queue.
C12_SystemCreatePreempts == [][C12_CreateStep]_vars

\* A Periodic task has just been preempted by the System task it created.
C12_Witness ==
    /\ ~aborted
    /\ last_op = TASK_CREATE
    /\ last_dispatch = SYSTEM
    /\ level[cur_task] = SYSTEM
    /\ \E t \in Reach(K, periodic_list) :
           state[t] = READY /\ pc[t] = "create" /\ countdown[t] <= 0

\* A System task is Running after preempting the one RR task, which is
\* Ready inside its Task_Create_System call; nothing else is ready.
SystemPreemptedRR ==
    /\ level[cur_task] = SYSTEM
    /\ state[cur_task] = RUNNING
    /\ pc[cur_task] = "user"
    /\ head[system_queue] = NULL
    /\ DueSet = {}
    /\ Len(Chain(K, rr_queue)) = 1
    /\ level[head[rr_queue]] = RR
    /\ state[head[rr_queue]] = READY
    /\ pc[head[rr_queue]] = "create"

\* C13: after a System task that preempted an RR task yields with
\* Task_Next, the dispatch that follows selects the preempted RR task.
C13_SystemYieldResumesRR ==
    [][ (last_op' = TASK_NEXT /\ SystemPreemptedRR) =>
            (cur_task' = head[rr_queue] /\ state'[cur_task'] = RUNNING) ]_vars

\* The waiter the publishing current task has dequeued and not yet handled.
Dequeued == loc[cur_task].subscriber

\* C14, the loop body: the publisher's step on a dequeued waiter stores v in
\* the out-slot the waiter gave to Service_Subscribe and makes it Ready; no
\* store goes through a pointer that was never set.
C14_WakeStep ==
    (/\ pc[cur_task] = "pub_loop"
     /\ pc'[cur_task] # "pub_loop"
     /\ Dequeued # NULL)
    => /\ pc'[cur_task] = "pub_push"
       /\ state'[Dequeued] = READY
       /\ value[Dequeued] = Dequeued
       /\ slot'[Dequeued] = loc[cur_task].v
       /\ ~wild_write'

\* C14, the push: the woken waiter is put on the ready queue of its class.
C14_PushStep ==
    (pc[cur_task] = "pub_push" /\ pc'[cur_task] = "pub_deq")
    => /\ ~aborted'
       /\ level[Dequeued] = SYSTEM => Dequeued \in
              SeqRange(Walk(next', head'[system_queue], MAXPROCESS + 1))
       /\ level[Dequeued] = RR => Dequeued \in
              SeqRange(Walk(next', head'[rr_queue], MAXPROCESS + 1))

\* C14, the end: the drain ends with the waiter queue empty.
C14_EndStep ==
    (pc[cur_task] = "pub_loop" /\ pc'[cur_task] = "pub_end")
    => head'[subscribers(loc[cur_task].s)] = NULL

\* C14: Service_Publish(s, v) wakes every waiter it takes from the queue:
\* each has v in the out-slot it gave to Service_Subscribe, is Ready on the
\* ready queue of its class, and the waiter queue is empty at the end; no
\* waiter is dropped without being woken.
C14_PublishWakesAll ==
    [][C14_WakeStep /\ C14_PushStep /\ C14_EndStep]_vars

\* The current task is at the end of a Service_Publish that woke a System
\* waiter while it was not a System task itself.
PublisherMustYield ==
    pc[cur_task] = "pub_end" /\ loc[cur_task].interrupt = 1

\* C15, the preemption: the step that ends such a publish makes the
\* publisher Ready (RR: at the head of the RR queue; Periodic: countdown
\* and ticks_remaining rewound) and dispatches a System task.
C15_InterruptStep ==
    (PublisherMustYield /\ pc'[cur_task] = "user")
    => /\ last_op' = TASK_INTERRUPT
       /\ level[cur_task] # SYSTEM
       /\ state'[cur_task] = READY
       /\ level[cur_task] = RR =>
              head'[rr_queue] = cur_task
       /\ level[cur_task] = PERIODIC =>
              /\ countdown'[cur_task] = countdown[cur_task] - period[cur_task]
              /\ ticks_remaining' = (ticks_remaining + 1) % Uint8
       /\ cur_task' # cur_task
       /\ level[cur_task'] = SYSTEM
       /\ state'[cur_task'] = RUNNING
       /\ last_dispatch' = SYSTEM

\* C15, the System publisher: its publish ends without a kernel entry and
\* it keeps running.
C15_SystemPublisherStep ==
    (/\ pc[cur_task] \in { "pub_loop", "pub_push", "pub_deq", "pub_end" }
     /\ level[cur_task] = SYSTEM)
    => /\ loc'[cur_task].interrupt = 0
       /\ pc'[cur_task] = "user" =>
              (last_op' = NONE /\ cur_task' = cur_task
                   /\ state'[cur_task] = RUNNING)

\* C15: a non-System publisher that woke a System waiter is preempted right
\* after the drain: it becomes Ready (RR: head of the RR queue; Periodic:
\* slot accounting rewound) and the next task dispatched is a System waiter;
\* a System publisher is never preempted by its own publish.
C15_PublisherPreempted ==
    [][C15_InterruptStep /\ C15_SystemPublisherStep]_vars

\* The descriptors on the system queue or the RR queue after the step.
OnReadyQueueAfter ==
    SeqRange(Walk(next', head'[system_queue], MAXPROCESS + 1))
        \cup SeqRange(Walk(next', head'[rr_queue], MAXPROCESS + 1))

\* C16, the call: the Task_Next that ends Service_Subscribe leaves the
\* caller Waiting at the tail of a waiter queue, on no ready queue, and,
\* unless the dispatcher aborts, dispatches another task.
C16_SubscribeStep ==
    (pc[cur_task] = "sub_next" /\ pc'[cur_task] = "user" /\ ~aborted')
    => /\ state'[cur_task] = WAITING
       /\ \E s \in ServiceIds : AtTailAfter(subscribers(s), cur_task)
       /\ cur_task \notin OnReadyQueueAfter
       /\ cur_task' # cur_task

\* C16, the wait: a task blocked by Service_Subscribe leaves state Waiting
\* only by the step of a publisher that has dequeued it, which stores the
\* published value in its slot and makes it Ready.
C16_WakeStep ==
    \A t \in Tasks :
        (state[t] = WAITING /\ pc[t] = "user" /\ state'[t] # WAITING)
        => /\ pc[cur_task] = "pub_loop"
           /\ Dequeued = t
           /\ state'[t] = READY
           /\ slot'[t] = loc[cur_task].v

\* C16: after Service_Subscribe the caller is Waiting at the tail of the
\* waiter queue and on no ready queue; it is not dispatched again until a
\* Service_Publish on the service, whose value its slot then holds.
C16_SubscriberBlocks == [][C16_SubscribeStep /\ C16_WakeStep]_vars

\* The descriptors reachable from the head of some waiter queue.
OnWaiterQueue == UNION { Reach(K, subscribers(s)) : s \in ServiceIds }

\* C17, the states: no Periodic descriptor is Waiting or on a waiter queue,
\* and ERR_RUN_8_PERIODIC_TASK_FOUND_SUBSCRIBED has not been raised.
C17_NoPeriodicWaiter ==
    /\ \A t \in Tasks :
           level[t] = PERIODIC => (state[t] # WAITING /\ t \notin OnWaiterQueue)
    /\ error_msg # ERR_RUN_8_PERIODIC_TASK_FOUND_SUBSCRIBED

\* The kernel's data: descriptors, queues and lists, and the current task.
KernelData == << state, level, next, prev, period, wcet, countdown, value,
                 head, tail, service_count, cur_task, ticks_remaining >>

\* C17, the call: no Periodic task gets past the level check of
\* Service_Subscribe; the check stores ERR_RUN_7_PERIODIC_TASK_SUBSCRIBED
\* for a Periodic caller only and changes nothing else; and the caller's
\* next step is the abort, with that code and with nothing changed.
C17_SubscribeStep ==
    /\ (pc[cur_task] = "user" /\ pc'[cur_task] = "sub_state")
           => level[cur_task] # PERIODIC
    /\ (pc[cur_task] = "user" /\ pc'[cur_task] = "os_abort"
            /\ error_msg' = ERR_RUN_7_PERIODIC_TASK_SUBSCRIBED)
           => (level[cur_task] = PERIODIC /\ UNCHANGED KernelData)
    /\ (pc[cur_task] = "os_abort" /\ level[cur_task] = PERIODIC
            /\ error_msg = ERR_RUN_7_PERIODIC_TASK_SUBSCRIBED)
           => /\ aborted'
              /\ error_msg' = ERR_RUN_7_PERIODIC_TASK_SUBSCRIBED
              /\ UNCHANGED KernelData

\* C17: a Periodic task that calls Service_Subscribe aborts the system with
\* ERR_RUN_7_PERIODIC_TASK_SUBSCRIBED before any state is changed; no
\* Periodic task is ever Waiting or on a waiter queue, and Service_Publish
\* never raises ERR_RUN_8_PERIODIC_TASK_FOUND_SUBSCRIBED.
C17_PeriodicNeverSubscribes ==
    []C17_NoPeriodicWaiter /\ [][C17_SubscribeStep]_vars

\* A Periodic task has called Service_Subscribe.
C17_Witness ==
    /\ aborted
    /\ error_msg = ERR_RUN_7_PERIODIC_TASK_SUBSCRIBED
    /\ level[cur_task] = PERIODIC
    /\ state[cur_task] = RUNNING
    /\ pc[cur_task] = "os_abort"

\* The dead pool, in queue order, before and after the step.
DeadPool == Chain(K, dead_pool_queue)
DeadPoolAfter == Walk(next', head'[dead_pool_queue], MAXPROCESS + 1)

\* The descriptors in state Dead.
DeadTasks == { t \in Tasks : state[t] = DEAD }

\* C18, the states: the dead pool holds every Dead descriptor once and
\* nothing else.
C18_DeadPoolHoldsDead ==
    ~aborted =>
        /\ SeqRange(DeadPool) = DeadTasks
        /\ Len(DeadPool) = Cardinality(DeadTasks)

\* C18, the create: a create request that succeeds takes the descriptor at
\* the head of the dead pool and shortens the pool by one.
C18_CreateStep ==
    (last_op' = TASK_CREATE /\ ~aborted' /\ ~dead_pool_empty(K)) =>
        /\ state'[NewTask] # DEAD
        /\ DeadPool # << >>
        /\ DeadPoolAfter = Tail(DeadPool)

\* C18, the terminate: the terminating task becomes Dead, is appended to the
\* dead pool, which grows by one, and is on no other structure.
C18_TerminateStep ==
    (last_op' = TASK_TERMINATE /\ ~aborted) =>
        /\ state'[cur_task] = DEAD
        /\ DeadPoolAfter = DeadPool \o << cur_task >>
        /\ tail'[dead_pool_queue] = cur_task
        /\ \A q \in Queues \ { dead_pool_queue } :
               cur_task \notin SeqRange(Walk(next', head'[q], MAXPROCESS + 1))

\* C18: creating a task and then terminating it leaves the dead pool as long
\* as before the create, with the terminated descriptor Dead and available
\* to a later create; this holds for System, RR and Periodic tasks, and a
\* Periodic one is also removed from the periodic list.
C18_CreateTerminateRestoresPool ==
    []C18_DeadPoolHoldsDead /\ [][C18_CreateStep /\ C18_TerminateStep]_vars

\* A created RR task has terminated and its descriptor is back at the tail
\* of the dead pool.
C18_Witness ==
    /\ ~aborted
    /\ last_op = TASK_TERMINATE
    /\ calls.create > 0
    /\ tail[dead_pool_queue] # NULL
    /\ state[tail[dead_pool_queue]] = DEAD
    /\ level[tail[dead_pool_queue]] = RR
    /\ Len(DeadPool) = MAXPROCESS - 1

\* C19, one step: from a state in which OS_Abort has been entered nothing
\* changes; and the step that enters OS_Abort dispatches no task.
C19_AbortStep ==
    /\ aborted => UNCHANGED vars
    /\ (~aborted /\ aborted') =>
           /\ cur_task' = cur_task
           /\ last_dispatch' \in { NONE, "abort" }
           /\ \A t \in Tasks : state'[t] = RUNNING => state[t] = RUNNING

\* C19: once OS_Abort has been entered, with any error code, the system
\* never leaves the abort path: no task is dispatched afterwards, no queue,
\* list or task state changes, and error_msg stays the code that was raised.
C19_AbortIsFinal == [][C19_AbortStep]_vars

\* OS_Abort has been entered while a task had further steps to take and
\* further ticks were due.
C19_Witness ==
    /\ aborted
    /\ cur_task # idle_task
    /\ pc[cur_task] = "user"
    /\ state[cur_task] = RUNNING
    /\ head[rr_queue] # NULL
    /\ current_tick_multiplied < TickMs * MaxTicks

\* The time that has passed since OS_Init, in milliseconds modulo 2^16, is
\* one of these: the ticks handled so far and 0 .. 4 ms of the current one.
ElapsedMs == { (current_tick_multiplied + o) % Uint16 : o \in 0 .. MaxOffset }

\* The step is the return of a Now call.
NowReturns == pc[cur_task] = "now_time" /\ pc'[cur_task] = "user"

\* No tick came between the two statements of the returning Now call.
NowUndisturbed ==
    loc[cur_task].retval = (current_tick_multiplied + Uint16 - NowBias) % Uint16

\* C20, the value: a Now call that no tick disturbs returns the elapsed time,
\* which is in 0 .. 4 before the first tick.
C20_ValueStep ==
    (NowReturns /\ NowUndisturbed) =>
        /\ now_last' \in ElapsedMs
        /\ current_tick_multiplied = 0 => now_last' \in 0 .. MaxOffset

\* C20, the order: the value of a Now call is not behind the value of the
\* Now call that returned before it, modulo 2^16.
C20_OrderStep ==
    (NowReturns /\ now_last # NULL) =>
        (now_last' + Uint16 - now_last) % Uint16 < Uint16 \div 2

\* C20: Now returns the time elapsed since the OS started in milliseconds
\* modulo 2^16, that is 5 * (ticks elapsed) + (0 .. 4); it is in 0 .. 4
\* before the first tick and never decreases between two successive calls
\* except at the 2^16 wrap.
C20_NowIsElapsedTime == [][C20_ValueStep /\ C20_OrderStep]_vars

\* C20 without the value: successive calls of Now never go back.
C20_NowNeverGoesBack == [][C20_OrderStep]_vars

\* Now has returned twice: before the first tick and after it.
C20_Witness ==
    /\ ~aborted
    /\ calls.now = MaxNow
    /\ pc[cur_task] = "user"
    /\ now_last # NULL
    /\ current_tick_multiplied > 0

\* The state is one the kernel has just left: the last step was a kernel
\* entry that ended with a dispatch.
KernelLeft == ~aborted /\ last_op # NONE

\* The ready structure of the class of descriptor t.
ClassStructures(t) ==
    CASE level[t] = SYSTEM   -> { system_queue }
      [] level[t] = PERIODIC -> { periodic_list }
      [] level[t] = RR       -> { rr_queue }
      [] OTHER               -> { }

\* The waiter queues of the services.
WaiterQueues == { subscribers(s) : s \in ServiceIds }

\* C21: in every state the kernel leaves, every task whose state is Ready is
\* on exactly one structure, the one of its class: the system queue for a
\* System task, the RR queue for an RR task, the periodic list for a
\* Periodic task.
C21_ReadyOnClassStructure ==
    KernelLeft =>
        \A t \in AppTasks :
            state[t] = READY =>
                (ClassStructures(t) # { } /\ StructuresOf(t) = ClassStructures(t))

\* A Ready RR task is on rr_queue and a Ready Periodic task exists.
C21_Witness ==
    /\ KernelLeft
    /\ Len(Chain(K, rr_queue)) >= 1
    /\ \A t \in Reach(K, rr_queue) : state[t] = READY /\ level[t] = RR
    /\ \E t \in AppTasks : state[t] = READY /\ level[t] = PERIODIC

\* C22: in every state the kernel leaves, every task whose state is Waiting
\* is reachable from the head of the waiter queue of exactly one service and
\* is on no other structure.
C22_WaitingOnOneWaiterQueue ==
    KernelLeft =>
        \A t \in AppTasks :
            state[t] = WAITING =>
                /\ Cardinality(StructuresOf(t)) = 1
                /\ StructuresOf(t) \subseteq WaiterQueues

\* A task is Waiting.
C22_Witness ==
    /\ KernelLeft
    /\ \E t \in AppTasks : state[t] = WAITING /\ pc[t] = "user"

\* C23: in every state the kernel leaves, every descriptor on a waiter queue
\* is Waiting and of class System or RR.
C23_WaiterQueueHoldsWaiting ==
    KernelLeft =>
        \A t \in OnWaiterQueue :
            state[t] = WAITING /\ level[t] \in { SYSTEM, RR }

\* A waiter queue holds a descriptor.
C23_Witness ==
    /\ KernelLeft
    /\ OnWaiterQueue # { }

\* C24: in every state the kernel leaves, every live Periodic task is on the
\* periodic list and on neither the system queue nor the RR queue, the
\* system queue holds only System tasks, the RR queue only RR tasks, and the
\* idle descriptor is on no queue or list.
C24_MembershipFollowsClass ==
    KernelLeft =>
        /\ \A t \in AppTasks :
               LivePeriodic(t) =>
                   /\ t \in Reach(K, periodic_list)
                   /\ t \notin Reach(K, system_queue) \cup Reach(K, rr_queue)
        /\ \A t \in Reach(K, system_queue) : level[t] = SYSTEM
        /\ \A t \in Reach(K, rr_queue) : level[t] = RR
        /\ StructuresOf(idle_task) = { }

\* A Ready RR task is on the RR queue and a Ready System task on the system
\* queue.
C24_Witness ==
    /\ KernelLeft
    /\ head[rr_queue] # NULL
    /\ head[system_queue] # NULL
    /\ \A t \in Reach(K, rr_queue) : state[t] = READY /\ level[t] = RR
    /\ \A t \in Reach(K, system_queue) : state[t] = READY /\ level[t] = SYSTEM

\* A release of Periodic task t may be in flight: t is Running, or Ready
\* and due (a release that a System task preempted has had its period taken
\* off the countdown again, which leaves it <= 0).
ReleaseInFlight(t) ==
    /\ LivePeriodic(t)
    /\ state[t] = RUNNING \/ (state[t] = READY /\ countdown[t] <= 0)

\* C25, the states: with no periodic release in flight ticks_remaining is 0.
C25_NoReleaseNoBudget ==
    (~aborted /\ \A t \in AppTasks : ~ReleaseInFlight(t)) =>
        ticks_remaining = 0

\* C25, the steps: ticks_remaining is not decremented below 0.
C25_NoWrapStep == ~(ticks_remaining = 0 /\ ticks_remaining' = Uint8 - 1)

\* C25: ticks_remaining is non-zero only while a periodic release is in
\* flight; with no release in flight (only idle, RR or System tasks have run
\* since the last periodic yield, or the Periodic task terminated
\* mid-release) it is 0, and it never wraps below 0 as an 8-bit counter.
C25_BudgetOnlyInRelease == []C25_NoReleaseNoBudget /\ [][C25_NoWrapStep]_vars

\* A Periodic task has yielded and waits for its next release.
C25_Witness ==
    /\ ~aborted
    /\ last_op = TASK_NEXT
    /\ ticks_remaining = 0
    /\ \E t \in AppTasks :
           LivePeriodic(t) /\ state[t] = READY /\ countdown[t] > 0
    /\ \A t \in AppTasks : ~ReleaseInFlight(t)

\* Queue q as it is after the step.
QueueAfter(q) == Walk(next', head'[q], MAXPROCESS + 1)

\* The step is a Task_Next call of a Running task from its own code.
Yields ==
    /\ ~aborted
    /\ last_op' = TASK_NEXT
    /\ pc[cur_task] = "user"
    /\ state[cur_task] = RUNNING

\* Queue q with the yielding task appended.
QueueThenCurrent(q) == Chain(K, q) \o << cur_task >>

\* C26, a System task yields: it goes behind every task of the system queue
\* and the head of the queue is dispatched, which is the task itself when
\* the queue was empty.
C26_SystemStep ==
    (Yields /\ level[cur_task] = SYSTEM) =>
        /\ ~aborted'
        /\ last_dispatch' = SYSTEM
        /\ cur_task' = Head(QueueThenCurrent(system_queue))
        /\ QueueAfter(system_queue) = Tail(QueueThenCurrent(system_queue))
        /\ state'[cur_task'] = RUNNING
        /\ cur_task' # cur_task => state'[cur_task] = READY

\* C26, an RR task yields: it goes behind every task of the RR queue; when
\* the dispatcher takes an RR task it is the head of that queue, and it
\* takes one (the task itself when it is the only ready task) when the
\* system queue is empty and no periodic task is due.
C26_RRStep ==
    (Yields /\ level[cur_task] = RR /\ ~aborted') =>
        /\ IF last_dispatch' = RR
           THEN /\ cur_task' = Head(QueueThenCurrent(rr_queue))
                /\ QueueAfter(rr_queue) = Tail(QueueThenCurrent(rr_queue))
           ELSE QueueAfter(rr_queue) = QueueThenCurrent(rr_queue)
        /\ cur_task' # cur_task => state'[cur_task] = READY
        /\ (head[system_queue] = NULL /\ DueSet = {}) => last_dispatch' = RR

\* C26, a Periodic task yields: ticks_remaining is 0 unless a release is
\* dispatched at once, the task is Ready on the periodic list only, and when
\* every other task is Dead and its next release is not yet due, idle is
\* dispatched.
C26_PeriodicStep ==
    (Yields /\ level[cur_task] = PERIODIC /\ ~aborted') =>
        /\ last_dispatch' # PERIODIC => ticks_remaining' = 0
        /\ cur_task' # cur_task => state'[cur_task] = READY
        /\ cur_task \in SeqRange(QueueAfter(periodic_list))
        /\ \A q \in Queues \ { periodic_list } :
               cur_task \notin SeqRange(QueueAfter(q))
        /\ (/\ \A t \in AppTasks \ { cur_task } : state[t] = DEAD
            /\ countdown[cur_task] > 0)
               => cur_task' = idle_task

\* C26: Task_Next by a Running System or RR task puts it Ready at the tail
\* of its class queue, behind every task already there; by a Running
\* Periodic task it sets ticks_remaining to 0 and leaves the task Ready on
\* the periodic list only; a yielding System or RR task that is the only
\* ready task is dispatched again, and after the yield of a Periodic task
\* that is the only task idle is dispatched.
C26_Yield == [][C26_SystemStep /\ C26_RRStep /\ C26_PeriodicStep]_vars

\* An RR task has yielded, the kernel has dispatched another RR task and
\* the one that yielded is Ready at the tail of the RR queue.
C26_Witness ==
    /\ ~aborted
    /\ last_op = TASK_NEXT
    /\ last_dispatch = RR
    /\ level[cur_task] = RR
    /\ tail[rr_queue] \in AppTasks \ { cur_task }
    /\ tail[rr_queue] \in SeqRange(Chain(K, rr_queue))
    /\ state[tail[rr_queue]] = READY
    /\ level[tail[rr_queue]] = RR

\* The step is the handling of a timer tick.
TickHandled == ~aborted /\ last_op' = TIMER_EXPIRED

\* C27, the current task is a Running System task: the tick changes neither ticks_remaining
\* nor the task's state nor the system and RR queues, takes one from the
\* countdown of every Periodic task and of no other, and the kernel keeps
\* the same task.
C27_SystemStep ==
    (TickHandled /\ level[cur_task] = SYSTEM /\ state[cur_task] = RUNNING) =>
        /\ ~aborted'
        /\ ticks_remaining' = ticks_remaining
        /\ state'[cur_task] = RUNNING
        /\ cur_task' = cur_task
        /\ last_dispatch' = "kept"
        /\ QueueAfter(system_queue) = Chain(K, system_queue)
        /\ QueueAfter(rr_queue) = Chain(K, rr_queue)
        /\ \A t \in AppTasks :
               countdown'[t] = IF LivePeriodic(t) THEN countdown[t] - 1
                               ELSE countdown[t]

\* C27, the current task is a Running Periodic task and the tick does not
\* end in an abort (budget used up, or the release of another Periodic
\* task): it stays Running and is kept.
C27_PeriodicStep ==
    (/\ TickHandled
     /\ level[cur_task] = PERIODIC
     /\ state[cur_task] = RUNNING
     /\ ~aborted') =>
        /\ cur_task' = cur_task
        /\ state'[cur_task] = RUNNING
        /\ last_dispatch' = "kept"

\* C27, a Running task that a tick takes the processor from is an RR
\* task, and it is Ready afterwards.
C27_OnlyRRStep ==
    (/\ TickHandled
     /\ ~aborted'
     /\ cur_task \in AppTasks
     /\ state[cur_task] = RUNNING
     /\ cur_task' # cur_task) =>
        /\ level[cur_task] = RR
        /\ state'[cur_task] = READY

ClassQueues == { system_queue, rr_queue }

\* The class queue of a task of level lv.
ClassQueue(lv) == IF lv = SYSTEM THEN system_queue ELSE rr_queue

\* The step is the push of the subscriber a Service_Publish call has woken.
PushStep ==
    /\ ~aborted
    /\ pc[cur_task] = "pub_push"
    /\ pc'[cur_task] = "pub_deq"
    /\ loc[cur_task].subscriber # NULL

\* The tasks a step may put in front of class queue q: the subscriber a
\* publish has woken, when it is of the class of q.
WokenFront(q) ==
    IF PushStep /\ level[loc[cur_task].subscriber] \in { SYSTEM, RR }
                /\ ClassQueue(level[loc[cur_task].subscriber]) = q
    THEN { << loc[cur_task].subscriber >> }
    ELSE {}

\* Class queue q changes as a queue does: at most its head leaves, and then
\* it is the task dispatched; at most one task joins at the tail; a task
\* joins at the head only from the set front.
QueueStep(q, front) ==
    \E i \in 0 .. 1 :
    \E f \in { << >> } \cup front :
    \E b \in { << >> } \cup { << t >> : t \in AppTasks } :
        /\ i <= Len(Chain(K, q))
        /\ i = 1 => cur_task' = Head(Chain(K, q))
        /\ QueueAfter(q) =
               f \o SubSeq(Chain(K, q), i + 1, Len(Chain(K, q))) \o b

C28_FifoStep ==
    (~aborted /\ ~aborted') =>
        \A q \in ClassQueues : QueueStep(q, WokenFront(q))

\* The subscriber a publish wakes goes in front of every task of its class
\* queue.
C28_PushStep ==
    (PushStep /\ ~aborted'
              /\ level[loc[cur_task].subscriber] \in { SYSTEM, RR }) =>
        QueueAfter(ClassQueue(level[loc[cur_task].subscriber])) =
            << loc[cur_task].subscriber >>
                \o Chain(K, ClassQueue(level[loc[cur_task].subscriber]))

C29_ReleaseTimes ==
    ~aborted =>
        \A t \in AppTasks :
            (LivePeriodic(t) /\ period[t] > 0) =>
                countdown[t] = release_in[t]

\* A tick has passed while a Periodic task, preempted in the middle of a
\* release that had run over a tick, is held back by a Running System task.
C29_Witness ==
    /\ ~aborted
    /\ last_op = TIMER_EXPIRED
    /\ level[cur_task] = SYSTEM
    /\ state[cur_task] = RUNNING
    /\ \E t \in AppTasks :
           /\ LivePeriodic(t)
           /\ period[t] > 0
           /\ state[t] = READY
           /\ ran[t] >= 1
           /\ countdown[t] < 0
           /\ countdown[t] = release_in[t]

\* Task t has put itself on a waiter queue and has not been woken since.
AwaitsPublish(t) == state[t] = WAITING \/ pc[t] = "sub_state"

\* A publisher has taken t from the waiter queue and is about to wake it.
HeldByPublisher(t) ==
    \E c \in Tasks : pc[c] = "pub_loop" /\ loc[c].subscriber = t

\* C30, no lost wake-up: a task that has subscribed and was not woken yet is
\* on a waiter queue or in the hands of a publisher.
C30_NoLostWakeup ==
    ~aborted =>
        \A t \in AppTasks :
            AwaitsPublish(t) => (t \in OnWaiterQueue \/ HeldByPublisher(t))

\* C30, the taking: the task a publisher takes from the waiter queue is
\* Waiting, so that the publisher wakes it.
C30_TakeStep ==
    (/\ ~aborted
     /\ pc[cur_task] = "pub_loop"
     /\ pc'[cur_task] # "pub_loop"
     /\ last_op' = NONE
     /\ Dequeued # NULL)
    => (state[Dequeued] = WAITING /\ state'[Dequeued] = READY)

\* C30, once: within the first Service_Publish call no out-slot is written
\* twice, whatever the waiter does between two steps of the publisher.
C30_WakeOnceStep ==
    (/\ ~aborted
     /\ calls.publish = 1
     /\ pc[cur_task] = "pub_loop"
     /\ pc'[cur_task] = "pub_push")
    => slot[Dequeued] = 0

\* C30: each Service_Subscribe call is completed by exactly one publication:
\* the waiter is made Ready by the first publish that starts after the
\* subscribe, no wake-up is lost when a tick falls inside the subscribe or
\* the publish, the out-slot is written once, and a waiter that subscribes
\* again while the publish is draining is not woken again by that publish.
C30_OneWakePerSubscribe ==
    []C30_NoLostWakeup /\ [][C30_TakeStep /\ C30_WakeOnceStep]_vars

\* A publisher has woken a waiter and stored the published value in its
\* out-slot.
C30_Witness ==
    /\ ~aborted
    /\ pc[cur_task] = "pub_push"
    /\ Dequeued \in AppTasks
    /\ state[Dequeued] = READY
    /\ slot[Dequeued] = loc[cur_task].v
    /\ ~wild_write

\* kernel_dispatch takes a task from a queue or from the periodic list in
\* this step.
Selects ==
    /\ ~aborted
    /\ ~aborted'
    /\ last_dispatch' \in { SYSTEM, PERIODIC, RR }

\* The state task t has when the request of this step has been handled and
\* kernel_dispatch begins, for a state that is Ready: t was Ready already, or
\* it is the Running caller that the handler made Ready, or it is the
\* descriptor a create request of this step took from the dead pool.
ReadyAtDispatch(t) ==
    \/ state[t] = READY
    \/ t = cur_task /\ state[t] = RUNNING /\ last_op' # TASK_TERMINATE
    \/ last_op' = TASK_CREATE /\ state[t] = DEAD /\ head[dead_pool_queue] = t

C31_SelectStep == Selects => ReadyAtDispatch(cur_task')

\* C31: kernel_dispatch never selects a descriptor whose state is Dead or
\* Waiting: the task a dispatch takes from a queue or from the periodic list
\* and makes Running was Ready immediately before the dispatch.
C31_DispatchesReady == [][C31_SelectStep]_vars

\* A dispatch has taken an RR task that had subscribed before from the RR
\* queue while a System task is Waiting.
C31_Witness ==
    /\ ~aborted
    /\ last_dispatch = RR
    /\ state[cur_task] = RUNNING
    /\ level[cur_task] = RR
    /\ calls.subscribe >= 1
    /\ \E t \in AppTasks : state[t] = WAITING

\* The application descriptors that are in use.
LiveTasks == { t \in AppTasks : state[t] # DEAD }

\* C32, the states: the dead pool holds the Dead application descriptors,
\* each once, so that pool and live tasks add up to MAXPROCESS; the idle
\* descriptor is not in the pool and is still the idle task.
C32_PoolIsTheDead ==
    ~aborted =>
        /\ SeqRange(DeadPool) = AppTasks \ LiveTasks
        /\ Len(DeadPool) + Cardinality(LiveTasks) = MAXPROCESS
        /\ idle_task \notin SeqRange(DeadPool)
        /\ state[idle_task] # DEAD
        /\ level[idle_task] = IDLE

\* C32, the start: OS_Init leaves MAXPROCESS - 1 descriptors in the pool.
C32_InitialPool == Init => Len(DeadPool) = MAXPROCESS - 1

\* C32, the create: a create request takes no descriptor but the head of the
\* dead pool, never the idle descriptor.
C32_AllocStep ==
    (last_op' = TASK_CREATE /\ ~aborted /\ ~aborted') =>
        \A t \in Tasks :
            (state[t] = DEAD /\ state'[t] # DEAD) =>
                (t \in AppTasks /\ t = head[dead_pool_queue])

\* C32: descriptors are conserved: in every state the dead pool contains
\* exactly the application descriptors whose state is Dead, each once, so the
\* length of the pool plus the number of live application tasks is
\* MAXPROCESS; after OS_Init the pool holds MAXPROCESS - 1 descriptors; the
\* idle descriptor is never in the pool and never allocated by a create.
C32_DescriptorsConserved ==
    C32_InitialPool /\ []C32_PoolIsTheDead /\ [][C32_AllocStep]_vars

\* Every application descriptor is in use: the pool is empty after creates.
C32_Witness ==
    /\ ~aborted
    /\ last_op = TASK_CREATE
    /\ DeadPool = << >>
    /\ Cardinality(LiveTasks) = MAXPROCESS

\* No System task and no Periodic task is live.
OnlyRRLive == \A t \in AppTasks : state[t] # DEAD => level[t] = RR

\* RR task t is Ready on the RR queue.
ReadyOnRR(t) ==
    level[t] = RR /\ state[t] = READY /\ t \in Reach(K, rr_queue)

\* C33: RR tasks do not starve each other: while timer ticks keep arriving
\* and no System and no Periodic task is live, every RR task that is Ready on
\* the RR queue is eventually dispatched, whatever the other RR tasks do.
C33_NoStarvation ==
    \A t \in AppTasks :
        (~aborted /\ OnlyRRLive /\ ReadyOnRR(t))
            ~> (aborted \/ (cur_task = t /\ state[t] = RUNNING))

\* Two RR tasks are Ready on the RR queue behind a running RR task, with no
\* System or Periodic task live.
C33_Witness ==
    /\ ~aborted
    /\ OnlyRRLive
    /\ level[cur_task] = RR
    /\ state[cur_task] = RUNNING
    /\ Cardinality({ t \in AppTasks : ReadyOnRR(t) }) >= 2

====
